---- MODULE Spec2Model ----
(***************************************************************************)
(* Model of the cipher0 cryptographic spine (package internal/crypto): the *)
(* keyring bridge (GetKeyringSecret, CreateKeyringSecret,                  *)
(* GetOrCreateKeyringSecret), the key derivation (DeriveKey,               *)
(* DeriveKeyWithKeyring), the AEAD engine (Encrypt, Decrypt), the recovery *)
(* phrase (NormalizePhrase, PhraseToKey) and the MEK envelope              *)
(* (CreateMEKBundle, DecryptMEKWithPassword, DecryptMEKWithPhrase,         *)
(* ReEncryptMEKWithNewPassword).                                           *)
(*                                                                         *)
(* Byte strings are sequences of integers 0..255.  The library primitives  *)
(* are idealised symbolically: Argon2id and SHA-256 are collision free     *)
(* (a key is the record of what it was derived from) and AES-256-GCM opens *)
(* a blob only under the key that sealed it and only while the blob is     *)
(* intact.  base64, phrase normalisation and the password||secret          *)
(* concatenation are computed as the code computes them.  ZeroMemory       *)
(* scrubs locals after the results are computed and is not modelled.       *)
(*                                                                         *)
(* The session guards (package internal/utils) are modelled with their     *)
(* goroutines: AutoLockTimer and ClipboardManager, the runtime timers that *)
(* time.AfterFunc arms, the goroutine each expiry starts, and the mutex    *)
(* each of them serialises its methods with.  A method that holds its      *)
(* mutex from entry to return and touches nothing outside is one step;     *)
(* Clear, which reads and writes the system clipboard that other           *)
(* applications write too, is taken step by step.                          *)
(***************************************************************************)
EXTENDS Integers, Sequences, FiniteSets, TLC

\* ------------------------------------------------------------------ bounds
NumSalts == 1
NumPasswords == 2
MaxGocCalls == 2
MaxPlainLen == 2
MaxTimers == 2
MaxTime == 2
NumCallers == 3
LengthMargin == 1
MaxSeed == 1

\* ------------------------------------------------------- program constants
MEKSize == 32
KeySize == 32
NonceSize == 12
TagSize == 16
KeyringSecretSize == 32
Argon2KeyLen == 32
SaltSize == 32
RecoveryPhraseWordCount == 12

\* nil byte slice (distinct from the empty, non-nil slice << >>)
Nil == << -1 >>

\* The bytes of a slice: a nil slice has length 0.
Bytes(b) == IF b = Nil THEN << >> ELSE b

Fill(n, b) == [i \in 1..n |-> b]

\* --------------------------------------------------------------- randomness
\* Values the CSPRNG can hand out (a bounded sample of bytes[n]).  A bundle
\* gets its MEK once, and no result depends on which nonce was drawn, so one
\* value of each stands for all; the keyring secret the program draws is one
\* value, and another writer of the keyring supplies a second (OtherSecret).
RandomMEKs == { Fill(MEKSize, 11) }
RandomNonces == { Fill(NonceSize, 31) }
RandomSalts == { Fill(SaltSize, 20 + i) : i \in 1..NumSalts }
RandomSecrets == { Fill(KeyringSecretSize, 41) }

\* Where the entropy source fails during one call, if it fails at all:
\* before the keyring is consulted, inside CreateKeyringSecret, or when the
\* GCM nonce is drawn.
RngOutcomes == {"ok", "failEarly", "failKeyring", "failNonce"}

\* ------------------------------------------------------------------ base64
\* Characters of the standard alphabet are their index 0..63, Pad is '=',
\* Bad is any character outside the alphabet.
Pad == 64
Bad == 65

\* EncodeToString: each group of three bytes becomes four characters, a
\* short last group is padded.
B64Encode(b) ==
  LET n == Len(b)
      at(i) == IF i <= n THEN b[i] ELSE 0
  IN [j \in 1..(4 * ((n + 2) \div 3)) |->
        LET q == (j - 1) \div 4
            r == (j - 1) % 4
            b1 == at(3 * q + 1)
            b2 == at(3 * q + 2)
            b3 == at(3 * q + 3)
        IN IF r = 0 THEN b1 \div 4
           ELSE IF r = 1 THEN (b1 % 4) * 16 + (b2 \div 16)
           ELSE IF r = 2 THEN (IF 3 * q + 2 > n THEN Pad ELSE (b2 % 16) * 4 + (b3 \div 64))
           ELSE (IF 3 * q + 3 > n THEN Pad ELSE b3 % 64)]

\* The input is well formed: whole quanta of four characters of the
\* alphabet, padding only as "=" or "==" at the very end.
B64WellFormed(s) ==
  LET n == Len(s)
  IN /\ n % 4 = 0
     /\ \A j \in 1..n :
          /\ s[j] # Bad
          /\ s[j] = Pad => (j = n \/ (j = n - 1 /\ s[n] = Pad))

\* DecodeString: ok = FALSE is CorruptInputError.
B64Decode(s) ==
  IF ~B64WellFormed(s) THEN [ok |-> FALSE, bytes |-> << >>]
  ELSE
    LET n == Len(s)
        pads == Cardinality({j \in 1..n : s[j] = Pad})
        ch(j) == IF s[j] = Pad THEN 0 ELSE s[j]
    IN [ok |-> TRUE,
        bytes |-> [i \in 1..(3 * (n \div 4) - pads) |->
                     LET q == (i - 1) \div 3
                         r == (i - 1) % 3
                     IN IF r = 0 THEN ch(4 * q + 1) * 4 + (ch(4 * q + 2) \div 16)
                        ELSE IF r = 1
                          THEN (ch(4 * q + 2) % 16) * 16 + (ch(4 * q + 3) \div 4)
                        ELSE (ch(4 * q + 3) % 4) * 64 + ch(4 * q + 4)]]

\* --------------------------------------------------------------------- KDF
Argon2IDKey(password, salt) ==
  [kdf |-> "argon2id", input |-> Bytes(password), salt |-> salt, len |-> Argon2KeyLen]

\* no key derived yet
NoKey == [kdf |-> "none", input |-> << >>, salt |-> << >>, len |-> 0]

DeriveKey(password, salt) == Argon2IDKey(password, salt)

DeriveKeyWithKeyring(password, salt, keyringSecret) ==
  Argon2IDKey(Bytes(password) \o Bytes(keyringSecret), salt)

\* --------------------------------------------------------------------- AEAD
\* A blob is nonce || ciphertext || tag: the nonce, what was sealed under
\* which key, whether the bytes are still the ones Seal produced, and the
\* blob's length in bytes.
Encrypt(plaintext, key, nonce) ==
  IF key.len # KeySize THEN [err |-> "ErrInvalidKey", blob |-> Nil]
  ELSE [err |-> "nil",
        blob |-> [nonce |-> nonce, key |-> key, pt |-> Bytes(plaintext),
                  intact |-> TRUE,
                  len |-> NonceSize + Len(Bytes(plaintext)) + TagSize]]

\* gcm.Open(nil, ...) appends the plaintext to a nil slice: an empty
\* plaintext comes back as the nil slice, with a nil error.
Decrypt_MinLenExclusive(ciphertext, key) ==
  IF key.len # KeySize THEN [err |-> "ErrInvalidKey", pt |-> Nil]
  ELSE IF ciphertext.len <= NonceSize + 16
    THEN [err |-> "ErrInvalidCiphertext", pt |-> Nil]
  ELSE IF ciphertext.intact /\ ciphertext.key = key
    THEN [err |-> "nil", pt |-> IF Len(ciphertext.pt) = 0 THEN Nil ELSE ciphertext.pt]
  ELSE [err |-> "ErrDecryptionFailed", pt |-> Nil]

Decrypt(ciphertext, key) ==
  IF key.len # KeySize THEN [err |-> "ErrInvalidKey", pt |-> Nil]
  ELSE IF ciphertext.len < NonceSize + 16
    THEN [err |-> "ErrInvalidCiphertext", pt |-> Nil]
  ELSE IF ciphertext.intact /\ ciphertext.key = key
    THEN [err |-> "nil", pt |-> IF Len(ciphertext.pt) = 0 THEN Nil ELSE ciphertext.pt]
  ELSE [err |-> "ErrDecryptionFailed", pt |-> Nil]

EncryptMEK(mek, derivedKey, nonce) == Encrypt(mek, derivedKey, nonce)

DecryptMEK(encryptedMEK, derivedKey) ==
  LET r == Decrypt(encryptedMEK, derivedKey)
  IN IF r.err # "nil"
     THEN IF r.err = "ErrDecryptionFailed"
          THEN [err |-> "ErrMEKDecryptionFailed", mek |-> Nil]
          ELSE [err |-> r.err, mek |-> Nil]
     ELSE [err |-> "nil", mek |-> r.pt]

\* --------------------------------------------------------- recovery phrase
\* Phrases are ASCII strings: 97 'a', 98 'b', 65 'A', 66 'B', 32 ' '.
Space == 32

ToLower(s) == [i \in 1..Len(s) |-> IF s[i] >= 65 /\ s[i] <= 90 THEN s[i] + 32 ELSE s[i]]

\* strings.Fields: the maximal runs of non-space characters.
RECURSIVE FieldsFrom(_, _, _)
FieldsFrom(s, cur, acc) ==
  IF Len(s) = 0 THEN (IF Len(cur) = 0 THEN acc ELSE Append(acc, cur))
  ELSE IF s[1] = Space
    THEN FieldsFrom(Tail(s), << >>, IF Len(cur) = 0 THEN acc ELSE Append(acc, cur))
    ELSE FieldsFrom(Tail(s), Append(cur, s[1]), acc)

Fields(s) == FieldsFrom(s, << >>, << >>)

\* strings.Join(words, " ")
RECURSIVE Join(_)
Join(words) ==
  IF Len(words) = 0 THEN << >>
  ELSE IF Len(words) = 1 THEN words[1]
  ELSE words[1] \o << Space >> \o Join(Tail(words))

NormalizePhrase(phrase) == Join(Fields(ToLower(phrase)))

\* The mnemonics the BIP-39 library accepts (12 words, checksum correct),
\* with one-letter words standing for the 2048-word list.
Mnemonic(first, second) ==
  Join([i \in 1..RecoveryPhraseWordCount |-> IF i % 2 = 1 THEN << first >> ELSE << second >>])

ValidMnemonics == { Mnemonic(97, 98), Mnemonic(98, 97) }

ValidateRecoveryPhrase(phrase) == phrase \in ValidMnemonics

PhraseToKey(phrase) ==
  LET p == NormalizePhrase(phrase)
  IN IF ~ValidateRecoveryPhrase(p)
     THEN [err |-> "ErrInvalidMnemonic", key |-> Nil]
     ELSE [err |-> "nil",
           key |-> [kdf |-> "bip39seed-sha256", input |-> p, salt |-> << >>, len |-> 32]]

\* ----------------------------------------------------------- keyring bridge
\* The keyring is the provider's condition and the entry stored under
\* (KeyringService, KeyringAccount).  mode "unavailable": every provider call
\* fails; "readonly": Get works and Set fails.
Absent == << -2 >>
ProviderModes == {"ok", "unavailable", "readonly"}

ProviderGet(kr) ==
  IF kr.mode = "unavailable" THEN [err |-> "ErrKeyringNotAvailable", value |-> << >>]
  ELSE IF kr.entry = Absent THEN [err |-> "ErrKeyringSecretNotFound", value |-> << >>]
  ELSE [err |-> "nil", value |-> kr.entry]

ProviderSet(kr, value) ==
  IF kr.mode # "ok" THEN [err |-> "ErrKeyringNotAvailable", kr |-> kr]
  ELSE [err |-> "nil", kr |-> [kr EXCEPT !.entry = value]]

ProviderDelete(kr) == [kr EXCEPT !.entry = Absent]

GetKeyringSecret(kr) ==
  LET g == ProviderGet(kr)
  IN IF g.err # "nil" THEN [secret |-> Nil, err |-> g.err]
     ELSE LET d == B64Decode(g.value)
          IN IF ~d.ok THEN [secret |-> Nil, err |-> "CorruptInputError"]
             ELSE [secret |-> d.bytes, err |-> "nil"]

\* fresh is the secret rand.Read fills in; rngOK is whether rand.Read succeeds.
CreateKeyringSecret(kr, fresh, rngOK) ==
  IF ~rngOK THEN [secret |-> Nil, err |-> "ErrEntropy", kr |-> kr]
  ELSE LET s == ProviderSet(kr, B64Encode(fresh))
       IN IF s.err # "nil" THEN [secret |-> Nil, err |-> s.err, kr |-> kr]
          ELSE [secret |-> fresh, err |-> "nil", kr |-> s.kr]

GetOrCreateKeyringSecret_AlwaysCreate(kr, fresh, rngOK) ==
  CreateKeyringSecret(kr, fresh, rngOK)

GetOrCreateKeyringSecret(kr, fresh, rngOK) ==
  LET g == GetKeyringSecret(kr)
  IN IF g.err = "nil" THEN [secret |-> g.secret, err |-> "nil", kr |-> kr]
     ELSE IF g.err = "ErrKeyringSecretNotFound"
       THEN CreateKeyringSecret(kr, fresh, rngOK)
     ELSE [secret |-> Nil, err |-> g.err, kr |-> kr]

\* ------------------------------------------------------------ MEK envelope
NoBlob == [nonce |-> Nil, key |-> Nil, pt |-> Nil, intact |-> FALSE, len |-> 0]

\* no bundle has been created yet (the *MEKBundle is nil)
NoBundle ==
  [SaltPassword |-> Nil, SaltPhrase |-> Nil,
   EncryptedMEKPassword |-> NoBlob, EncryptedMEKPhrase |-> NoBlob]

\* mek, phrase, saltPassword, saltPhrase, fresh and the two nonces are what
\* the CSPRNG hands out; rng says where, if anywhere, it fails.
CreateMEKBundle(kr, password, mek, phrase, saltPassword, saltPhrase, fresh, nonce, noncePhrase, rng) ==
  IF rng = "failEarly"
  THEN [bundle |-> NoBundle, phrase |-> << >>, err |-> "ErrEntropy", kr |-> kr, secret |-> Nil]
  ELSE
    LET g == GetOrCreateKeyringSecret(kr, fresh, rng # "failKeyring")
    IN IF g.err # "nil"
       THEN [bundle |-> NoBundle, phrase |-> << >>, err |-> "keyring is required",
             kr |-> g.kr, secret |-> Nil]
       ELSE
         LET passwordKey == DeriveKeyWithKeyring(password, saltPassword, g.secret)
             pk == PhraseToKey(phrase)
         IN IF pk.err # "nil"
            THEN [bundle |-> NoBundle, phrase |-> << >>, err |-> pk.err,
                  kr |-> g.kr, secret |-> Nil]
            ELSE
              LET ep == IF rng = "failNonce"
                        THEN [err |-> "ErrEntropy", blob |-> Nil]
                        ELSE EncryptMEK(mek, passwordKey, nonce)
                  er == IF rng = "failNonce"
                        THEN [err |-> "ErrEntropy", blob |-> Nil]
                        ELSE EncryptMEK(mek, pk.key, noncePhrase)
              IN IF ep.err # "nil"
                 THEN [bundle |-> NoBundle, phrase |-> << >>, err |-> ep.err,
                       kr |-> g.kr, secret |-> Nil]
                 ELSE IF er.err # "nil"
                 THEN [bundle |-> NoBundle, phrase |-> << >>, err |-> er.err,
                       kr |-> g.kr, secret |-> Nil]
                 ELSE [bundle |-> [SaltPassword |-> saltPassword,
                                   SaltPhrase |-> saltPhrase,
                                   EncryptedMEKPassword |-> ep.blob,
                                   EncryptedMEKPhrase |-> er.blob],
                       phrase |-> phrase, err |-> "nil", kr |-> g.kr,
                       secret |-> g.secret]

\* The key DecryptMEKWithPassword derives, g being what GetKeyringSecret
\* returned: [key, kdf], kdf naming the derivation used.
UnlockKey_PasswordOnly(password, salt, g) ==
  [key |-> DeriveKey(password, salt), kdf |-> "DeriveKey"]

UnlockKey(password, salt, g) ==
  IF g.err = "nil" /\ g.secret # Nil
  THEN [key |-> DeriveKeyWithKeyring(password, salt, g.secret),
        kdf |-> "DeriveKeyWithKeyring"]
  ELSE [key |-> DeriveKey(password, salt), kdf |-> "DeriveKey"]

\* kdf records which derivation the call used, kerr the keyring error it saw.
DecryptMEKWithPassword(b, kr, password) ==
  LET g == GetKeyringSecret(kr)
      k == UnlockKey(password, b.SaltPassword, g)
      d == DecryptMEK(b.EncryptedMEKPassword, k.key)
  IN [mek |-> d.mek, err |-> d.err, kdf |-> k.kdf, kerr |-> g.err]

DecryptMEKWithPhrase(b, phrase) ==
  LET pk == PhraseToKey(phrase)
  IN IF pk.err # "nil"
     THEN [mek |-> Nil, err |-> pk.err, kdf |-> "PhraseToKey", kerr |-> "nil"]
     ELSE LET d == DecryptMEK(b.EncryptedMEKPhrase, pk.key)
          IN [mek |-> d.mek, err |-> d.err, kdf |-> "PhraseToKey", kerr |-> "nil"]

\* The key ReEncryptMEKWithNewPassword derives, g being what
\* GetOrCreateKeyringSecret returned: [key, secret], secret the keyring secret
\* mixed in (Nil for the password-only derivation).
NewKey_PasswordOnly(newPassword, newSalt, g) ==
  [key |-> DeriveKey(newPassword, newSalt), secret |-> Nil]

NewKey(newPassword, newSalt, g) ==
  IF g.err = "nil" /\ g.secret # Nil
  THEN [key |-> DeriveKeyWithKeyring(newPassword, newSalt, g.secret),
        secret |-> g.secret]
  ELSE [key |-> DeriveKey(newPassword, newSalt), secret |-> Nil]

\* The two assignments that end a successful rotation.
InstallPasswordBranch_SaltOnly(b, newSalt, newEncryptedMEK) ==
  [b EXCEPT !.SaltPassword = newSalt]

InstallPasswordBranch_BothBlobs(b, newSalt, newEncryptedMEK) ==
  [b EXCEPT !.SaltPassword = newSalt,
            !.EncryptedMEKPassword = newEncryptedMEK,
            !.EncryptedMEKPhrase = newEncryptedMEK]

InstallPasswordBranch(b, newSalt, newEncryptedMEK) ==
  [b EXCEPT !.SaltPassword = newSalt, !.EncryptedMEKPassword = newEncryptedMEK]

ReEncryptMEKWithNewPassword(b, kr, mek, newPassword, newSalt, fresh, nonce, rng) ==
  IF rng = "failEarly"
  THEN [bundle |-> b, err |-> "ErrEntropy", kr |-> kr, secret |-> Nil]
  ELSE
    LET g == GetOrCreateKeyringSecret(kr, fresh, rng # "failKeyring")
        k == NewKey(newPassword, newSalt, g)
        e == IF rng = "failNonce"
             THEN [err |-> "ErrEntropy", blob |-> Nil]
             ELSE EncryptMEK(mek, k.key, nonce)
    IN IF e.err # "nil"
       THEN [bundle |-> b, err |-> e.err, kr |-> g.kr, secret |-> Nil]
       ELSE [bundle |-> InstallPasswordBranch(b, newSalt, e.blob),
             err |-> "nil", kr |-> g.kr, secret |-> k.secret]

\* ------------------------------------------------------------------ inputs
\* Master passwords callers type: short ones, and one that spells a short
\* password followed by the bytes of a keyring secret.
Passwords ==
  { << 6 + i >> : i \in 1..NumPasswords } \cup { << 7 >> \o Fill(KeyringSecretSize, 41) }

\* A mnemonic as a user may type it back: upper case, padded with spaces.
Shout(m) ==
  << Space >> \o [i \in 1..Len(m) |-> IF m[i] = Space THEN Space ELSE m[i] - 32]
    \o << Space, Space >>

\* The mnemonics GenerateRecoveryPhrase draws.
RandomMnemonics == { Mnemonic(97, 98) }

PhraseInputs ==
  ValidMnemonics \cup { Shout(m) : m \in RandomMnemonics } \cup { << 97, Space, 98 >> }

\* What another writer of the OS keyring entry may leave there: the empty
\* string, a string that is not base64, the encoding of a 32-byte secret,
\* and "AAAA" (three zero bytes).
OtherSecret == Fill(KeyringSecretSize, 40)
EnvelopeEntries == { << >>, << Bad >>, B64Encode(OtherSecret) }
ExternalEntries == EnvelopeEntries \cup { << 0, 0, 0, 0 >> }

BlobFields == {"EncryptedMEKPassword", "EncryptedMEKPhrase"}
Alterations == {"flip", "truncate"}

\* ------------------------------------------------------------------- state
VARIABLES
  keyring,      \* [mode, entry]: the keyring provider and the stored entry
  bundle,       \* the MEKBundle, NoBundle before CreateMEKBundle
  last,         \* [op, err]: the latest keyring bridge call and the error it returned
  held,         \* the MEK the caller got from the latest successful unlock
  origMEK,      \* history: the MEK CreateMEKBundle generated
  phrase,       \* history: the recovery phrase CreateMEKBundle returned
  curPw,        \* history: the password of the latest successful seal
  oldPw,        \* history: the password in force before the latest rotation
  sealSecret,   \* history: the keyring secret mixed into the latest seal
  touched,      \* history: the keyring changed since the latest successful seal
  phraseBranch, \* history: << SaltPhrase, EncryptedMEKPhrase >> as creation or damage left them
  gocSecret,    \* history: what GetOrCreateKeyringSecret last returned, entry untouched since
  gocCalls,     \* history: successful GetOrCreateKeyringSecret calls, entry untouched since
  aeadIn,       \* [plaintext, key]: the arguments of Encrypt / Decrypt under study
  aeadOut,      \* [ciphertext, err, decrypted, derr]: what Encrypt and Decrypt returned
  kdfIn,        \* [password, salt, keyringSecret]: the arguments of the key derivations
  kdfOut,       \* [plain, combined]: what DeriveKey and DeriveKeyWithKeyring returned
  autoLock,     \* the AutoLockTimer: [timeout, timer, callback, active]
  timers,       \* the runtime's timers made by time.AfterFunc: id -> [status, when]
  onTimeoutPc,  \* where the onTimeout goroutine of each timer stands
  mu,           \* AutoLockTimer.mu: 0 when free, else the goroutine holding it
  now,          \* the clock
  invocations,  \* history: how many times the callback was invoked
  stopped,      \* history: Stop has returned and no Start was called since
  startSinceIdle,    \* history: Start was called after the timer last became idle
  armedSinceStart,   \* history: the timers armed by the latest Start and by the
                     \*   Reset and SetTimeout calls since
  seenActive,   \* history: what IsActive() returned at the entry of each callback,
                \*   and whether Start had been called since the timer last became idle
  lastCall,     \* history: the method of the timer that has just returned, if any
  cm,           \* the ClipboardManager: [timeout, clearTimer, lastContent]
  clipboard,    \* the system clipboard: [unsupported, content]
  clearTimers,  \* the runtime's timers made by Copy: id -> [status, when]
  clearPc,      \* where each run of Clear stands: 0 the caller's, i > 0 timer i's goroutine
  current,      \* what clipboard.ReadAll() returned to each run of Clear
  cmMu,         \* ClipboardManager.mu: -1 when free, else the run of Clear holding it
  sinceCopy,    \* history: the latest successful Copy with a timeout and what happened since
  cmLast,       \* history: the manager's method that has just returned, and its error
  cancelled,    \* history: CancelClear has returned and no Copy has succeeded since
  channel,      \* the channel CopyWithNotification made for the clear of timer i (0: no clear)
  genOpts,      \* the GeneratorOptions handed to GeneratePassword
  genOut,       \* what GeneratePassword returned
  callers,      \* the goroutines calling GetOrCreateKeyringSecret at the same time
  rotation      \* history: the latest rotation by a caller with any MEK, and their parity

vars ==
  << keyring, bundle, last, held, origMEK, phrase, curPw, oldPw, sealSecret,
     touched, phraseBranch, gocSecret, gocCalls,
     aeadIn, aeadOut, kdfIn, kdfOut,
     autoLock, timers, onTimeoutPc, mu, now,
     invocations, stopped, startSinceIdle, armedSinceStart, seenActive, lastCall,
     cm, clipboard, clearTimers, clearPc, current, cmMu, sinceCopy, cmLast, cancelled,
     channel, genOpts, genOut, callers, rotation >>

\* What the envelope and the keyring bridge never touch.
primitives == << aeadIn, aeadOut, kdfIn, kdfOut >>

\* The auto-lock timer, the runtime timers it arms and their goroutines.
lockTimer == << autoLock, timers, onTimeoutPc, mu >>
lockHistory == << invocations, stopped, startSinceIdle, armedSinceStart, seenActive >>

\* The session guards.
autoLockGuard == << lockTimer, lockHistory, lastCall >>

\* The clipboard manager, the clipboard, the timers it arms and the runs of Clear.
clipboardHistory == << sinceCopy, cmLast, cancelled >>

clipboardGuard == << cm, clipboard, clearTimers, clearPc, current, cmMu, clipboardHistory, channel >>

guards == << autoLockGuard, clipboardGuard, now >>

\* The password generator.
generator == << genOpts, genOut >>

aux == << primitives, guards, generator, callers >>

goc == << gocSecret, gocCalls >>

envelopeHistory == << origMEK, phrase, curPw, oldPw, sealSecret, phraseBranch >>

envelope == << keyring, bundle, last, held, envelopeHistory, touched, goc >>

Result(op, err) == [op |-> op, err |-> err]

Altered(field) == ~bundle[field].intact

\* Nothing created yet: an empty keyring, no bundle.
EnvelopeAtRest ==
  /\ keyring = [mode |-> "ok", entry |-> Absent]
  /\ bundle = NoBundle
  /\ last = Result("none", "nil")
  /\ held = Nil
  /\ origMEK = Nil
  /\ phrase = << >>
  /\ curPw = Nil
  /\ oldPw = Nil
  /\ sealSecret = Nil
  /\ touched = FALSE
  /\ phraseBranch = << Nil, NoBlob >>
  /\ gocSecret = Nil
  /\ gocCalls = 0

\* The primitives are not under study.
PrimitivesAtRest ==
  /\ aeadIn = [plaintext |-> Nil, key |-> NoKey]
  /\ aeadOut = [ciphertext |-> NoBlob, err |-> "none", decrypted |-> Nil, derr |-> "none"]
  /\ kdfIn = [password |-> Nil, salt |-> Nil, keyringSecret |-> Nil]
  /\ kdfOut = [plain |-> NoKey, combined |-> NoKey]

\* A timer that was never started: NewAutoLockTimer(timeout, callback).
NewAutoLockTimer(timeout, callback) ==
  [timeout |-> timeout, timer |-> 0, callback |-> callback, active |-> FALSE]

NoTimers == [i \in 1..MaxTimers |-> [status |-> "unused", when |-> 0]]

NoCall == "none"

NotSeen == [isActive |-> FALSE, startSinceIdle |-> FALSE]

LockTimerNew(timeout, callback) ==
  /\ autoLock = NewAutoLockTimer(timeout, callback)
  /\ timers = NoTimers
  /\ onTimeoutPc = [i \in 1..MaxTimers |-> "none"]
  /\ mu = 0
  /\ now = 0
  /\ invocations = 0
  /\ stopped = FALSE
  /\ startSinceIdle = FALSE
  /\ armedSinceStart = {}
  /\ seenActive = [i \in 1..MaxTimers |-> NotSeen]
  /\ lastCall = NoCall

\* NewClipboardManager(timeout), on a system whose clipboard is or is not
\* supported and holds nothing.
NewClipboardManager(timeout) == [timeout |-> timeout, clearTimer |-> 0, lastContent |-> ""]

\* No channel: the clear was scheduled by Copy, or not at all.
NoChannel == [state |-> "none", buffered |-> 0, received |-> 0]

NoCopy == [text |-> "", when |-> 0, undisturbed |-> FALSE, cleared |-> FALSE, failed |-> FALSE]

ClipboardNew(timeout, unsupported) ==
  /\ cm = NewClipboardManager(timeout)
  /\ clipboard = [unsupported |-> unsupported, content |-> ""]
  /\ clearTimers = NoTimers
  /\ clearPc = [r \in 0..MaxTimers |-> "idle"]
  /\ current = [r \in 0..MaxTimers |-> ""]
  /\ cmMu = -1
  /\ sinceCopy = NoCopy
  /\ cmLast = Result("none", "nil")
  /\ cancelled = FALSE
  /\ channel = [i \in 0..MaxTimers |-> NoChannel]

GuardsAtRest == LockTimerNew(0, FALSE) /\ ClipboardNew(0, FALSE)

\* GeneratePassword has not been called.
NoOptions == [Length |-> 0, IncludeUppercase |-> FALSE, IncludeLowercase |-> FALSE, IncludeDigits |-> FALSE, IncludeSymbols |-> FALSE, ExcludeAmbiguous |-> FALSE]

NoPassword == [password |-> << >>, err |-> "none"]

GeneratorAtRest == genOpts = NoOptions /\ genOut = NoPassword

\* No goroutine is inside GetOrCreateKeyringSecret.
NoCaller == [pc |-> "idle", secret |-> Nil, err |-> "none"]

CallersAtRest == callers = [c \in 1..NumCallers |-> NoCaller]

\* No caller has rotated with a MEK of its choice.
NoRotation == [mark |-> 0, err |-> "none", mek |-> Nil]

ElsewhereAtRest == GeneratorAtRest /\ CallersAtRest /\ rotation = NoRotation

Init == EnvelopeAtRest /\ PrimitivesAtRest /\ GuardsAtRest /\ ElsewhereAtRest

\* ------------------------------------------------------ keyring environment
\* The provider starts or stops answering (OS keyring locked, no D-Bus...).
ProviderCondition(mode) ==
  /\ UNCHANGED << aux, rotation >>
  /\ keyring.mode # mode
  /\ keyring' = [keyring EXCEPT !.mode = mode]
  /\ touched' = TRUE
  /\ UNCHANGED << bundle, last, held, envelopeHistory, goc >>

\* Another writer stores a value under the entry (KeyringProvider.Set).
KeyringSet(value) ==
  /\ UNCHANGED << aux, rotation >>
  /\ keyring.entry # value
  /\ keyring' = [keyring EXCEPT !.entry = value]
  /\ touched' = TRUE
  /\ gocSecret' = Nil
  /\ gocCalls' = 0
  /\ UNCHANGED << bundle, last, held, envelopeHistory >>

\* The entry is removed (KeyringProvider.Delete).
KeyringDelete ==
  /\ UNCHANGED << aux, rotation >>
  /\ keyring.entry # Absent
  /\ keyring' = ProviderDelete(keyring)
  /\ touched' = TRUE
  /\ gocSecret' = Nil
  /\ gocCalls' = 0
  /\ UNCHANGED << bundle, last, held, envelopeHistory >>

\* ------------------------------------------------------------ keyring calls
CallGetKeyringSecret ==
  LET g == GetKeyringSecret(keyring)
  IN /\ UNCHANGED << aux, rotation >>
     /\ last' = Result("GetKeyringSecret", g.err)
     /\ UNCHANGED << keyring, bundle, held, envelopeHistory, touched, goc >>

CallCreateKeyringSecret(fresh, rngOK) ==
  LET c == CreateKeyringSecret(keyring, fresh, rngOK)
  IN /\ UNCHANGED << aux, rotation >>
     /\ keyring' = c.kr
     /\ last' = Result("CreateKeyringSecret", c.err)
     /\ touched' = (touched \/ c.kr # keyring)
     /\ gocSecret' = IF c.err = "nil" THEN Nil ELSE gocSecret
     /\ gocCalls' = IF c.err = "nil" THEN 0 ELSE gocCalls
     /\ UNCHANGED << bundle, held, envelopeHistory >>

CallGetOrCreateKeyringSecret(fresh, rngOK) ==
  LET g == GetOrCreateKeyringSecret(keyring, fresh, rngOK)
  IN /\ UNCHANGED << aux, rotation >>
     /\ keyring' = g.kr
     /\ last' = Result("GetOrCreateKeyringSecret", g.err)
     /\ touched' = (touched \/ g.kr # keyring)
     /\ gocSecret' = IF g.err = "nil" THEN g.secret ELSE gocSecret
     /\ gocCalls' = IF g.err = "nil" /\ gocCalls < MaxGocCalls THEN gocCalls + 1 ELSE gocCalls
     /\ UNCHANGED << bundle, held, envelopeHistory >>

\* ----------------------------------------------------------- envelope calls
\* First run: the vault's bundle is created.
CallCreateMEKBundle(password, mek, ph, saltPassword, saltPhrase, fresh, nonce, noncePhrase, rng) ==
  /\ UNCHANGED << aux, rotation >>
  /\ bundle = NoBundle
  /\ LET c == CreateMEKBundle(keyring, password, mek, ph, saltPassword, saltPhrase,
                              fresh, nonce, noncePhrase, rng)
     IN /\ keyring' = c.kr
        /\ IF c.err = "nil"
           THEN /\ bundle' = c.bundle
                /\ origMEK' = mek
                /\ phrase' = c.phrase
                /\ curPw' = password
                /\ sealSecret' = c.secret
                /\ phraseBranch' = << c.bundle.SaltPhrase, c.bundle.EncryptedMEKPhrase >>
                /\ touched' = FALSE
           ELSE /\ UNCHANGED << bundle, origMEK, phrase, curPw, sealSecret, phraseBranch >>
                /\ touched' = (touched \/ c.kr # keyring)
  /\ UNCHANGED << last, held, oldPw, goc >>

CallDecryptMEKWithPassword(password) ==
  /\ UNCHANGED << aux, rotation >>
  /\ bundle # NoBundle
  /\ LET d == DecryptMEKWithPassword(bundle, keyring, password)
     IN held' = IF d.err = "nil" THEN d.mek ELSE held
  /\ UNCHANGED << keyring, bundle, last, envelopeHistory, touched, goc >>

CallDecryptMEKWithPhrase(ph) ==
  /\ UNCHANGED << aux, rotation >>
  /\ bundle # NoBundle
  /\ LET d == DecryptMEKWithPhrase(bundle, ph)
     IN held' = IF d.err = "nil" THEN d.mek ELSE held
  /\ UNCHANGED << keyring, bundle, last, envelopeHistory, touched, goc >>

CallReEncryptMEKWithNewPassword(mek, newPassword, newSalt, fresh, nonce, rng) ==
  /\ UNCHANGED aux
  /\ bundle # NoBundle
  /\ mek # Nil
  /\ LET r == ReEncryptMEKWithNewPassword(bundle, keyring, mek, newPassword,
                                          newSalt, fresh, nonce, rng)
     IN /\ keyring' = r.kr
        /\ bundle' = r.bundle
        /\ IF r.err = "nil"
           THEN /\ curPw' = newPassword
                /\ oldPw' = curPw
                /\ sealSecret' = r.secret
                /\ touched' = FALSE
           ELSE /\ UNCHANGED << curPw, oldPw, sealSecret >>
                /\ touched' = (touched \/ r.kr # keyring)
  /\ UNCHANGED << last, held, origMEK, phrase, phraseBranch, goc >>

\* The stored bundle is damaged: the last byte of a blob is flipped, or the
\* blob is cut below nonce + tag.
AlterBundle(field, how) ==
  /\ UNCHANGED << aux, rotation >>
  /\ bundle # NoBundle
  /\ ~Altered(field)
  /\ bundle' =
       [bundle EXCEPT ![field] =
          IF how = "flip" THEN [@ EXCEPT !.intact = FALSE]
          ELSE [@ EXCEPT !.intact = FALSE, !.len = NonceSize + TagSize - 1]]
  /\ phraseBranch' = << bundle'.SaltPhrase, bundle'.EncryptedMEKPhrase >>
  /\ UNCHANGED << keyring, last, held, origMEK, phrase, curPw, oldPw, sealSecret,
                  touched, goc >>

NextKeyringEnv(entries) ==
  \/ \E mode \in ProviderModes : ProviderCondition(mode)
  \/ \E value \in entries : KeyringSet(value)
  \/ KeyringDelete

\* The envelope's life: the caller rotates with the MEK it unlocked.
Next ==
  \/ NextKeyringEnv(EnvelopeEntries)
  \/ \E password \in Passwords, mek \in RandomMEKs, ph \in RandomMnemonics,
        saltPassword \in RandomSalts, saltPhrase \in RandomSalts,
        fresh \in RandomSecrets, nonce \in RandomNonces,
        noncePhrase \in RandomNonces, rng \in RngOutcomes :
       CallCreateMEKBundle(password, mek, ph, saltPassword, saltPhrase, fresh,
                           nonce, noncePhrase, rng)
  \/ \E password \in Passwords : CallDecryptMEKWithPassword(password)
  \/ \E ph \in PhraseInputs : CallDecryptMEKWithPhrase(ph)
  \/ \E newPassword \in Passwords, newSalt \in RandomSalts, fresh \in RandomSecrets,
        nonce \in RandomNonces, rng \in RngOutcomes :
       CallReEncryptMEKWithNewPassword(held, newPassword, newSalt, fresh, nonce, rng)
         /\ UNCHANGED rotation
  \/ \E field \in BlobFields, how \in Alterations : AlterBundle(field, how)

Spec == Init /\ [][Next]_vars

\* The keyring bridge on its own.
NextKeyring ==
  \/ NextKeyringEnv(ExternalEntries)
  \/ CallGetKeyringSecret
  \/ \E fresh \in RandomSecrets, rngOK \in BOOLEAN : CallCreateKeyringSecret(fresh, rngOK)
  \/ \E fresh \in RandomSecrets, rngOK \in BOOLEAN : CallGetOrCreateKeyringSecret(fresh, rngOK)

SpecKeyring == Init /\ [][NextKeyring]_vars

\* Goroutines calling GetOrCreateKeyringSecret at the same time. The
\* provider's Get and Set are each atomic (MockKeyring holds its mutex, the
\* OS store serialises requests); nothing holds across the two.
CallerSecrets == { Fill(KeyringSecretSize, 41 + c) : c \in 0..(NumCallers - 1) }

Finished(secret, err) == [pc |-> "done", secret |-> secret, err |-> err]

\* A goroutine enters GetOrCreateKeyringSecret.
GocEnter(c) ==
  /\ callers[c].pc = "idle"
  /\ callers' = [callers EXCEPT ![c].pc = "get"]
  /\ UNCHANGED << envelope, primitives, guards, generator, rotation >>

\* secret, err := GetKeyringSecret() and the two tests on err
GocGet(c) ==
  /\ callers[c].pc = "get"
  /\ LET g == GetKeyringSecret(keyring)
     IN callers' = [callers EXCEPT ![c] =
                      IF g.err = "nil" THEN Finished(g.secret, "nil")
                      ELSE IF g.err = "ErrKeyringSecretNotFound" THEN [@ EXCEPT !.pc = "create"]
                      ELSE Finished(Nil, g.err)]
  /\ UNCHANGED << envelope, primitives, guards, generator, rotation >>

\* return CreateKeyringSecret()
GocCreate(c, fresh, rngOK) ==
  /\ callers[c].pc = "create"
  /\ LET r == CreateKeyringSecret(keyring, fresh, rngOK)
     IN /\ keyring' = r.kr
        /\ callers' = [callers EXCEPT ![c] = Finished(r.secret, r.err)]
  /\ UNCHANGED << bundle, last, held, envelopeHistory, touched, goc >>
  /\ UNCHANGED << primitives, guards, generator, rotation >>

NextCallers ==
  \/ \E c \in 1..NumCallers : GocEnter(c)
  \/ \E c \in 1..NumCallers : GocGet(c)
  \/ \E c \in 1..NumCallers, fresh \in CallerSecrets, rngOK \in BOOLEAN : GocCreate(c, fresh, rngOK)

SpecCallers == Init /\ [][NextCallers]_vars

\* Rotation by any caller: the mek argument is whatever byte string the
\* caller passes, the MEK of the bundle or another 32 bytes;
\* the salt GenerateSalt draws may or may not be the one creation drew.
ForeignMEK == Fill(MEKSize, 12)
AnyMEKs == RandomMEKs \cup { ForeignMEK }

RotationSalts == { Fill(SaltSize, 20 + i) : i \in 1..(NumSalts + 1) }

\* The call and what it returned, for the history.
Rotated(mek, err) == [mark |-> 1 - rotation.mark, err |-> err, mek |-> mek]

CallRotateWith(mek, newPassword, newSalt, fresh, nonce, rng) ==
  /\ CallReEncryptMEKWithNewPassword(mek, newPassword, newSalt, fresh, nonce, rng)
  /\ rotation' = Rotated(mek, ReEncryptMEKWithNewPassword(bundle, keyring, mek, newPassword, newSalt, fresh, nonce, rng).err)

NextRotate ==
  \/ \E password \in Passwords, mek \in RandomMEKs, ph \in RandomMnemonics,
        saltPassword \in RandomSalts, saltPhrase \in RandomSalts,
        fresh \in RandomSecrets, nonce \in RandomNonces,
        noncePhrase \in RandomNonces, rng \in RngOutcomes :
       CallCreateMEKBundle(password, mek, ph, saltPassword, saltPhrase, fresh,
                           nonce, noncePhrase, rng)
  \/ KeyringDelete
  \/ \E mek \in AnyMEKs, newPassword \in Passwords, newSalt \in RotationSalts,
        fresh \in RandomSecrets, nonce \in RandomNonces, rng \in RngOutcomes :
       CallRotateWith(mek, newPassword, newSalt, fresh, nonce, rng)

SpecRotate == Init /\ [][NextRotate]_vars

\* --------------------------------------------------- the primitives alone
\* Keys as the callers of Encrypt and Decrypt can hold them: derived from a
\* password, derived from a recovery phrase, or raw bytes of any length.
RawKey(n) == [kdf |-> "raw", input |-> << >>, salt |-> << >>, len |-> n]

AEADKeys ==
  { DeriveKey(<< 7 >>, salt) : salt \in RandomSalts }
    \cup { PhraseToKey(Mnemonic(97, 98)).key }
    \cup { RawKey(n) : n \in {0, 16, 31, 32, 33} }

RECURSIVE ByteStrings(_)
ByteStrings(n) ==
  IF n = 0 THEN { << >> }
  ELSE LET shorter == ByteStrings(n - 1)
       IN shorter \cup { Append(b, x) : b \in { c \in shorter : Len(c) = n - 1 }, x \in {0, 255} }

Plaintexts == { Nil } \cup ByteStrings(MaxPlainLen)

KdfPasswords == { Nil, << >>, << 7 >>, << 7, 8 >> }
KdfSecrets == { Nil, << >>, << 8 >>, Fill(KeyringSecretSize, 41) }

InitPrimitives ==
  /\ EnvelopeAtRest
  /\ ElsewhereAtRest
  /\ aeadIn \in [plaintext : Plaintexts, key : AEADKeys]
  /\ aeadOut = [ciphertext |-> NoBlob, err |-> "none", decrypted |-> Nil, derr |-> "none"]
  /\ kdfIn \in [password : KdfPasswords, salt : RandomSalts, keyringSecret : KdfSecrets]
  /\ kdfOut = [plain |-> NoKey, combined |-> NoKey]
  /\ GuardsAtRest

\* Encrypt(plaintext, key); rngOK says whether the nonce could be drawn.
CallEncrypt(nonce, rngOK) ==
  /\ aeadOut.err = "none"
  /\ LET e == IF aeadIn.key.len = KeySize /\ ~rngOK
              THEN [err |-> "failed to generate nonce", blob |-> NoBlob]
              ELSE Encrypt(aeadIn.plaintext, aeadIn.key, nonce)
     IN aeadOut' = [aeadOut EXCEPT !.ciphertext = IF e.err = "nil" THEN e.blob ELSE NoBlob,
                                  !.err = e.err]
  /\ UNCHANGED << envelope, guards, generator, callers, rotation, aeadIn, kdfIn, kdfOut >>

\* Decrypt(ciphertext, key) on what Encrypt returned, under the same key.
CallDecrypt ==
  /\ aeadOut.err = "nil"
  /\ aeadOut.derr = "none"
  /\ LET d == Decrypt(aeadOut.ciphertext, aeadIn.key)
     IN aeadOut' = [aeadOut EXCEPT !.decrypted = d.pt, !.derr = d.err]
  /\ UNCHANGED << envelope, guards, generator, callers, rotation, aeadIn, kdfIn, kdfOut >>

CallDeriveKey ==
  /\ kdfOut.plain = NoKey
  /\ kdfOut' = [kdfOut EXCEPT !.plain = DeriveKey(kdfIn.password, kdfIn.salt)]
  /\ UNCHANGED << envelope, guards, generator, callers, rotation, aeadIn, aeadOut, kdfIn >>

CallDeriveKeyWithKeyring ==
  /\ kdfOut.combined = NoKey
  /\ kdfOut' = [kdfOut EXCEPT !.combined =
                  DeriveKeyWithKeyring(kdfIn.password, kdfIn.salt, kdfIn.keyringSecret)]
  /\ UNCHANGED << envelope, guards, generator, callers, rotation, aeadIn, aeadOut, kdfIn >>

NextPrimitives ==
  \/ \E nonce \in RandomNonces, rngOK \in BOOLEAN : CallEncrypt(nonce, rngOK)
  \/ CallDecrypt
  \/ CallDeriveKey
  \/ CallDeriveKeyWithKeyring

SpecPrimitives == InitPrimitives /\ [][NextPrimitives]_vars

\* ----------------------------------------------------------- auto-lock timer
\* time.Duration values a caller configures: none (0) and two positive ones.
Timeouts == 0..2

\* The timer ids time.AfterFunc has not handed out yet.
Unused(tm) == { i \in 1..MaxTimers : tm[i].status = "unused" }

Pending(tm) == { i \in 1..MaxTimers : tm[i].status = "pending" }

\* The id of the timer the next time.AfterFunc call makes.
NewTimer(tm) == CHOOSE i \in Unused(tm) : \A j \in Unused(tm) : i <= j

\* time.AfterFunc(d, f) at time t: a new timer that expires d later.
AfterFunc(tm, d, t) ==
  [tm EXCEPT ![NewTimer(tm)] = [status |-> "pending", when |-> t + d]]

\* (*time.Timer).Stop: keeps a pending timer from expiring; a timer that
\* has expired or was stopped is left as it is, and so is the goroutine an
\* expired timer has started.
TimerStop(tm, i) ==
  IF tm[i].status = "pending" THEN [tm EXCEPT ![i].status = "stopped"] ELSE tm

\* The methods, between t.mu.Lock() and t.mu.Unlock(): from the timer t and
\* the runtime's timers tm to what they are when the method returns.
Start(t, tm, clock) ==
  LET tm1 == IF t.timer # 0 THEN TimerStop(tm, t.timer) ELSE tm
  IN IF t.timeout > 0
     THEN [t |-> [t EXCEPT !.timer = NewTimer(tm1), !.active = TRUE],
           tm |-> AfterFunc(tm1, t.timeout, clock)]
     ELSE [t |-> t, tm |-> tm1]

Reset_NoStop(t, tm, clock) ==
  IF t.timeout > 0 /\ t.active
  THEN [t |-> [t EXCEPT !.timer = NewTimer(tm)],
        tm |-> AfterFunc(tm, t.timeout, clock)]
  ELSE [t |-> t, tm |-> tm]

Reset(t, tm, clock) ==
  LET tm1 == IF t.timer # 0 THEN TimerStop(tm, t.timer) ELSE tm
  IN IF t.timeout > 0 /\ t.active
     THEN [t |-> [t EXCEPT !.timer = NewTimer(tm1)],
           tm |-> AfterFunc(tm1, t.timeout, clock)]
     ELSE [t |-> t, tm |-> tm1]

Stop(t, tm) ==
  IF t.timer # 0
  THEN [t |-> [t EXCEPT !.timer = 0, !.active = FALSE], tm |-> TimerStop(tm, t.timer)]
  ELSE [t |-> [t EXCEPT !.active = FALSE], tm |-> tm]

SetTimeout(t, tm, timeout, clock) ==
  LET t1 == [t EXCEPT !.timeout = timeout]
  IN IF t.active /\ t.timer # 0
     THEN LET tm1 == TimerStop(tm, t.timer)
          IN IF timeout > 0
             THEN [t |-> [t1 EXCEPT !.timer = NewTimer(tm1)],
                   tm |-> AfterFunc(tm1, timeout, clock)]
             ELSE [t |-> t1, tm |-> tm1]
     ELSE [t |-> t1, tm |-> tm]

IsActive(t) == t.active

\* onTimeout between Lock and Unlock: the timer becomes idle.
onTimeout(t) == [t EXCEPT !.active = FALSE, !.timer = 0]

\* Who holds t.mu when onTimeout goes on to the callback: nobody.
onTimeoutUnlock_DuringCallback(i) == i

onTimeoutUnlock(i) == 0

\* Whether a method that arms a timer when armsWhen holds can still get one
\* from the bounded supply.
CanArm(armsWhen) == armsWhen => Unused(timers) # {}

CallStart ==
  /\ lastCall' = "Start"
  /\ mu = 0
  /\ CanArm(autoLock.timeout > 0)
  /\ LET r == Start(autoLock, timers, now)
     IN /\ autoLock' = r.t
        /\ timers' = r.tm
  /\ stopped' = FALSE
  /\ startSinceIdle' = TRUE
  /\ armedSinceStart' = Pending(timers') \ Pending(timers)
  /\ UNCHANGED << envelope, primitives, generator, callers, rotation, clipboardGuard, onTimeoutPc, mu, now, invocations, seenActive >>

CallReset ==
  /\ lastCall' = "Reset"
  /\ mu = 0
  /\ CanArm(autoLock.timeout > 0 /\ autoLock.active)
  /\ LET r == Reset(autoLock, timers, now)
     IN /\ autoLock' = r.t
        /\ timers' = r.tm
  /\ armedSinceStart' = armedSinceStart \cup (Pending(timers') \ Pending(timers))
  /\ UNCHANGED << envelope, primitives, generator, callers, rotation, clipboardGuard, onTimeoutPc, mu, now, invocations, stopped,
                  startSinceIdle, seenActive >>

CallStop ==
  /\ lastCall' = "Stop"
  /\ mu = 0
  /\ LET r == Stop(autoLock, timers)
     IN /\ autoLock' = r.t
        /\ timers' = r.tm
  /\ stopped' = TRUE
  /\ UNCHANGED << envelope, primitives, generator, callers, rotation, clipboardGuard, onTimeoutPc, mu, now, invocations,
                  startSinceIdle, armedSinceStart, seenActive >>

CallSetTimeout(timeout) ==
  /\ lastCall' = "SetTimeout"
  /\ mu = 0
  /\ timeout # autoLock.timeout
  /\ CanArm(autoLock.active /\ autoLock.timer # 0 /\ timeout > 0)
  /\ LET r == SetTimeout(autoLock, timers, timeout, now)
     IN /\ autoLock' = r.t
        /\ timers' = r.tm
  /\ armedSinceStart' = armedSinceStart \cup (Pending(timers') \ Pending(timers))
  /\ UNCHANGED << envelope, primitives, generator, callers, rotation, clipboardGuard, onTimeoutPc, mu, now, invocations, stopped,
                  startSinceIdle, seenActive >>

\* Time passes.
Tick ==
  /\ lastCall' = NoCall
  /\ now < MaxTime
  /\ now' = now + 1
  /\ UNCHANGED << envelope, primitives, generator, callers, rotation, clipboardGuard, autoLock, timers, onTimeoutPc, mu, lockHistory >>

\* A pending timer reaches its time: the runtime starts a goroutine that
\* runs onTimeout, which first waits for t.mu.
Expire(i) ==
  /\ lastCall' = NoCall
  /\ timers[i].status = "pending"
  /\ now >= timers[i].when
  /\ timers' = [timers EXCEPT ![i].status = "expired"]
  /\ onTimeoutPc' = [onTimeoutPc EXCEPT ![i] = "blocked"]
  /\ UNCHANGED << envelope, primitives, generator, callers, rotation, clipboardGuard, autoLock, mu, now, lockHistory >>

\* onTimeout: t.mu.Lock()
onTimeoutLock(i) ==
  /\ lastCall' = NoCall
  /\ onTimeoutPc[i] = "blocked"
  /\ mu = 0
  /\ mu' = i
  /\ onTimeoutPc' = [onTimeoutPc EXCEPT ![i] = "locked"]
  /\ UNCHANGED << envelope, primitives, generator, callers, rotation, clipboardGuard, autoLock, timers, now, lockHistory >>

\* onTimeout: callback := t.callback; t.active = false; t.timer = nil;
\* t.mu.Unlock()
onTimeoutIdle(i) ==
  /\ lastCall' = NoCall
  /\ onTimeoutPc[i] = "locked"
  /\ autoLock' = onTimeout(autoLock)
  /\ mu' = onTimeoutUnlock(i)
  /\ onTimeoutPc' = [onTimeoutPc EXCEPT ![i] = "unlocked"]
  /\ startSinceIdle' = FALSE
  /\ UNCHANGED << envelope, primitives, generator, callers, rotation, clipboardGuard, timers, now, invocations, stopped,
                  armedSinceStart, seenActive >>

\* onTimeout: if callback != nil { callback() }.  The callback starts by
\* asking the timer IsActive(), which takes t.mu.
onTimeoutCallback(i) ==
  /\ lastCall' = NoCall
  /\ onTimeoutPc[i] = "unlocked"
  /\ IF autoLock.callback
     THEN /\ mu = 0
          /\ onTimeoutPc' = [onTimeoutPc EXCEPT ![i] = "callback"]
          /\ invocations' = invocations + 1
          /\ seenActive' = [seenActive EXCEPT ![i] =
                              [isActive |-> IsActive(autoLock),
                               startSinceIdle |-> startSinceIdle]]
     ELSE /\ onTimeoutPc' = [onTimeoutPc EXCEPT ![i] = "done"]
          /\ UNCHANGED << invocations, seenActive >>
  /\ UNCHANGED << envelope, primitives, generator, callers, rotation, clipboardGuard, autoLock, timers, mu, now, stopped,
                  startSinceIdle, armedSinceStart >>

\* The callback returns, and onTimeout with it.
onTimeoutReturn(i) ==
  /\ lastCall' = NoCall
  /\ onTimeoutPc[i] = "callback"
  /\ onTimeoutPc' = [onTimeoutPc EXCEPT ![i] = "done"]
  /\ UNCHANGED << envelope, primitives, generator, callers, rotation, clipboardGuard, autoLock, timers, mu, now, lockHistory >>

InitAutoLock ==
  /\ EnvelopeAtRest
  /\ ElsewhereAtRest
  /\ PrimitivesAtRest
  /\ \E timeout \in Timeouts, callback \in BOOLEAN : LockTimerNew(timeout, callback)
  /\ ClipboardNew(0, FALSE)

\* The callers' methods stand for every goroutine that calls them, the one
\* running the callback included.
NextAutoLock ==
  \/ CallStart
  \/ CallReset
  \/ CallStop
  \/ \E timeout \in Timeouts : CallSetTimeout(timeout)
  \/ Tick
  \/ \E i \in 1..MaxTimers : Expire(i)
  \/ \E i \in 1..MaxTimers : onTimeoutLock(i)
  \/ \E i \in 1..MaxTimers : onTimeoutIdle(i)
  \/ \E i \in 1..MaxTimers : onTimeoutCallback(i)
  \/ \E i \in 1..MaxTimers : onTimeoutReturn(i)

SpecAutoLock == InitAutoLock /\ [][NextAutoLock]_vars

\* -------------------------------------------------------- clipboard manager
\* What callers copy, and what another application puts on the clipboard.
CopyTexts == {"secret", "token"}
ExternalTexts == {"other"}

\* Copy between cm.mu.Lock() and cm.mu.Unlock(): c the manager, tm the
\* runtime's timers, board the system clipboard; writeOK says whether
\* clipboard.WriteAll succeeds.
Copy(c, tm, board, text, writeOK, clock) ==
  IF board.unsupported
  THEN [err |-> "ErrClipboardUnavailable", cm |-> c, tm |-> tm, board |-> board]
  ELSE
    LET tm1 == IF c.clearTimer # 0 THEN TimerStop(tm, c.clearTimer) ELSE tm
    IN IF ~writeOK
       THEN [err |-> "write failed", cm |-> c, tm |-> tm1, board |-> board]
       ELSE
         LET c1 == [c EXCEPT !.lastContent = text]
             b1 == [board EXCEPT !.content = text]
         IN IF c.timeout > 0
            THEN [err |-> "nil", cm |-> [c1 EXCEPT !.clearTimer = NewTimer(tm1)],
                  tm |-> AfterFunc(tm1, c.timeout, clock), board |-> b1]
            ELSE [err |-> "nil", cm |-> c1, tm |-> tm1, board |-> b1]

CancelClear(c, tm) ==
  IF c.clearTimer # 0
  THEN [cm |-> [c EXCEPT !.clearTimer = 0], tm |-> TimerStop(tm, c.clearTimer)]
  ELSE [cm |-> c, tm |-> tm]

\* A successful Copy that scheduled a clear, nothing having happened since;
\* byHand says whether a Clear the caller called is still under way.
CopyDone(text, when, byHand) ==
  [text |-> text, when |-> when, undisturbed |-> TRUE, cleared |-> byHand, failed |-> FALSE]

\* A run of Clear that is not under way.
Returned(r) == clearPc[r] \notin {"blocked", "locked", "read"}

\* Something the claims about a Copy exclude has happened.
Disturbed == NoCopy

CallCopy(text, writeOK) ==
  /\ cmMu = -1
  /\ (~clipboard.unsupported /\ writeOK /\ cm.timeout > 0) =>
        (Unused(clearTimers) # {} /\ now + cm.timeout <= MaxTime)
  /\ LET r == Copy(cm, clearTimers, clipboard, text, writeOK, now)
     IN /\ cm' = r.cm
        /\ clearTimers' = r.tm
        /\ clipboard' = r.board
        /\ sinceCopy' = IF r.err = "nil" /\ cm.timeout > 0
                        THEN CopyDone(text, now + cm.timeout, ~Returned(0))
                        ELSE Disturbed
        /\ cmLast' = Result("Copy", r.err)
        /\ cancelled' = (cancelled /\ r.err # "nil")
  /\ UNCHANGED << envelope, primitives, generator, callers, rotation, autoLockGuard, now, clearPc, current, cmMu, channel >>

CallCancelClear ==
  /\ cmMu = -1
  /\ LET r == CancelClear(cm, clearTimers)
     IN /\ cm' = r.cm
        /\ clearTimers' = r.tm
  /\ sinceCopy' = Disturbed
  /\ cmLast' = Result("CancelClear", "nil")
  /\ cancelled' = TRUE
  /\ UNCHANGED << envelope, primitives, generator, callers, rotation, autoLockGuard, now, clipboard, clearPc, current, cmMu,
                  channel >>

\* ClipboardManager.SetTimeout
CallClipboardSetTimeout(timeout) ==
  /\ cmMu = -1
  /\ timeout # cm.timeout
  /\ cm' = [cm EXCEPT !.timeout = timeout]
  /\ UNCHANGED << envelope, primitives, generator, callers, rotation, autoLockGuard, now, clipboard, clearTimers,
                  clearPc, current, cmMu, sinceCopy, cancelled, channel >>
  /\ cmLast' = Result("SetTimeout", "nil")

\* Another application writes the clipboard; it knows nothing of cm.mu.
ExternalWrite(text) ==
  /\ clipboard.content # text
  /\ clipboard' = [clipboard EXCEPT !.content = text]
  /\ sinceCopy' = Disturbed
  /\ cmLast' = Result("none", "nil")
  /\ UNCHANGED << envelope, primitives, generator, callers, rotation, autoLockGuard, now, cm, clearTimers,
                  clearPc, current, cmMu, cancelled, channel >>

\* The caller calls Clear(), which first waits for cm.mu.
CallClear ==
  /\ Returned(0)
  /\ clearPc' = [clearPc EXCEPT ![0] = "blocked"]
  /\ sinceCopy' = IF sinceCopy.undisturbed THEN [sinceCopy EXCEPT !.cleared = TRUE]
                  ELSE sinceCopy
  /\ cmLast' = Result("none", "nil")
  /\ UNCHANGED << envelope, primitives, generator, callers, rotation, autoLockGuard, now, cm, clipboard, clearTimers,
                  current, cmMu, cancelled, channel >>

\* A pending clear timer reaches its time: the runtime starts a goroutine
\* that calls cm.Clear().
ExpireClear(i) ==
  /\ clearTimers[i].status = "pending"
  /\ now >= clearTimers[i].when
  /\ clearTimers' = [clearTimers EXCEPT ![i].status = "expired"]
  /\ clearPc' = [clearPc EXCEPT ![i] = "blocked"]
  /\ cmLast' = Result("none", "nil")
  /\ UNCHANGED << envelope, primitives, generator, callers, rotation, autoLockGuard, now, cm, clipboard, current,
                  cmMu, sinceCopy, cancelled, channel >>

\* Clear: cm.mu.Lock()
ClearLock(r) ==
  /\ clearPc[r] = "blocked"
  /\ cmMu = -1
  /\ cmMu' = r
  /\ clearPc' = [clearPc EXCEPT ![r] = "locked"]
  /\ cmLast' = Result("none", "nil")
  /\ UNCHANGED << envelope, primitives, generator, callers, rotation, autoLockGuard, now, cm, clipboard, clearTimers,
                  current, sinceCopy, cancelled, channel >>

Failed(c) == IF c.undisturbed THEN [c EXCEPT !.failed = TRUE] ELSE c

\* Clear: the Unsupported check and current, err := clipboard.ReadAll()
ClearRead(r, readOK) ==
  /\ clearPc[r] = "locked"
  /\ IF clipboard.unsupported
     THEN /\ clearPc' = [clearPc EXCEPT ![r] = "ErrClipboardUnavailable"]
          /\ cmMu' = -1
          /\ UNCHANGED << current, sinceCopy >>
     ELSE IF ~readOK
     THEN /\ clearPc' = [clearPc EXCEPT ![r] = "read failed"]
          /\ cmMu' = -1
          /\ sinceCopy' = Failed(sinceCopy)
          /\ UNCHANGED current
     ELSE /\ clearPc' = [clearPc EXCEPT ![r] = "read"]
          /\ current' = [current EXCEPT ![r] = clipboard.content]
          /\ UNCHANGED << cmMu, sinceCopy >>
  /\ cmLast' = Result("none", "nil")
  /\ UNCHANGED << envelope, primitives, generator, callers, rotation, autoLockGuard, now, cm, clipboard, clearTimers,
                  cancelled, channel >>

\* Clear: if current == cm.lastContent { clipboard.WriteAll("") };
\* cm.lastContent = ""; cm.mu.Unlock()
ClearWrite(r, writeOK) ==
  /\ clearPc[r] = "read"
  /\ IF current[r] = cm.lastContent /\ ~writeOK
     THEN /\ clearPc' = [clearPc EXCEPT ![r] = "write failed"]
          /\ sinceCopy' = Failed(sinceCopy)
          /\ UNCHANGED << cm, clipboard >>
     ELSE /\ clearPc' = [clearPc EXCEPT ![r] = "nil"]
          /\ clipboard' = IF current[r] = cm.lastContent
                          THEN [clipboard EXCEPT !.content = ""]
                          ELSE clipboard
          /\ cm' = [cm EXCEPT !.lastContent = ""]
          /\ UNCHANGED sinceCopy
  /\ cmMu' = -1
  /\ current' = [current EXCEPT ![r] = ""]
  /\ cmLast' = Result("none", "nil")
  /\ UNCHANGED << envelope, primitives, generator, callers, rotation, autoLockGuard, now, clearTimers, cancelled, channel >>

InitClipboard ==
  /\ EnvelopeAtRest
  /\ ElsewhereAtRest
  /\ PrimitivesAtRest
  /\ LockTimerNew(0, FALSE)
  /\ \E timeout \in Timeouts, unsupported \in BOOLEAN : ClipboardNew(timeout, unsupported)

NextClipboard ==
  \/ \E text \in CopyTexts, writeOK \in BOOLEAN : CallCopy(text, writeOK)
  \/ CallCancelClear
  \/ \E timeout \in Timeouts : CallClipboardSetTimeout(timeout)
  \/ \E text \in ExternalTexts : ExternalWrite(text)
  \/ CallClear
  \/ Tick
  \/ \E i \in 1..MaxTimers : ExpireClear(i)
  \/ \E r \in 0..MaxTimers : ClearLock(r)
  \/ \E r \in 0..MaxTimers, readOK \in BOOLEAN : ClearRead(r, readOK)
  \/ \E r \in 0..MaxTimers, writeOK \in BOOLEAN : ClearWrite(r, writeOK)

\* Time advances, a timer that is due expires, and a goroutine that can run
\* does run.
FairClipboard ==
  /\ WF_vars(Tick)
  /\ WF_vars(\E i \in 1..MaxTimers : ExpireClear(i))
  /\ WF_vars(\E r \in 0..MaxTimers : ClearLock(r))
  /\ WF_vars(\E r \in 0..MaxTimers, readOK \in BOOLEAN : ClearRead(r, readOK))
  /\ WF_vars(\E r \in 0..MaxTimers, writeOK \in BOOLEAN : ClearWrite(r, writeOK))

SpecClipboard == InitClipboard /\ [][NextClipboard]_vars /\ FairClipboard

\* ---------------------------------------------------- CopyWithNotification
\* CopyWithNotification between cm.mu.Lock() and cm.mu.Unlock(): what Copy
\* does, and ch := make(chan bool, 1) once the write has succeeded. ch names
\* the timer whose function will send on the channel, 0 when no clear is
\* scheduled (timeout <= 0) and -1 when no channel is returned.
CopyWithNotification(c, tm, board, text, writeOK, clock) ==
  LET r == Copy(c, tm, board, text, writeOK, clock)
  IN [err |-> r.err, cm |-> r.cm, tm |-> r.tm, board |-> r.board,
      ch |-> IF r.err # "nil" THEN -1 ELSE IF c.timeout > 0 THEN r.cm.clearTimer ELSE 0]

\* make(chan bool, 1)
MakeChan == [state |-> "open", buffered |-> 0, received |-> 0]

CallCopyWithNotification(text, writeOK) ==
  /\ cmMu = -1
  /\ (~clipboard.unsupported /\ writeOK /\ cm.timeout > 0) =>
        (Unused(clearTimers) # {} /\ now + cm.timeout <= MaxTime)
  /\ LET r == CopyWithNotification(cm, clearTimers, clipboard, text, writeOK, now)
     IN /\ cm' = r.cm
        /\ clearTimers' = r.tm
        /\ clipboard' = r.board
        /\ sinceCopy' = IF r.err = "nil" /\ cm.timeout > 0
                        THEN CopyDone(text, now + cm.timeout, ~Returned(0))
                        ELSE Disturbed
        /\ cmLast' = Result("CopyWithNotification", r.err)
        /\ cancelled' = (cancelled /\ r.err # "nil")
        /\ channel' = IF r.ch >= 0 THEN [channel EXCEPT ![r.ch] = MakeChan] ELSE channel
  /\ UNCHANGED << envelope, primitives, generator, callers, rotation, autoLockGuard, now, clearPc, current, cmMu >>

\* The timer's function has come back from _ = cm.Clear().
ClearReturned(r) == clearPc[r] \in {"nil", "ErrClipboardUnavailable", "read failed", "write failed"}

\* The timer's function reaches ch <- true.
CanSend_BeforeClear(i) == clearPc[i] # "idle"
CanSend(i) == ClearReturned(i)

\* ch <- true: the buffer has room for the one value, so the send never waits.
NotifySend(i) ==
  /\ channel[i].state = "open"
  /\ CanSend(i)
  /\ channel' = [channel EXCEPT ![i].state = "sent", ![i].buffered = 1]
  /\ cmLast' = Result("none", "nil")
  /\ UNCHANGED << envelope, primitives, generator, callers, rotation, autoLockGuard, now, cm, clipboard, clearTimers,
                  clearPc, current, cmMu, sinceCopy, cancelled >>

\* close(ch)
NotifyClose(i) ==
  /\ channel[i].state = "sent"
  /\ channel' = [channel EXCEPT ![i].state = "closed"]
  /\ cmLast' = Result("none", "nil")
  /\ UNCHANGED << envelope, primitives, generator, callers, rotation, autoLockGuard, now, cm, clipboard, clearTimers,
                  clearPc, current, cmMu, sinceCopy, cancelled >>

\* The caller's <-ch takes the buffered value.
Receive(i) ==
  /\ channel[i].buffered > 0
  /\ channel' = [channel EXCEPT ![i].buffered = @ - 1, ![i].received = @ + 1]
  /\ cmLast' = Result("none", "nil")
  /\ UNCHANGED << envelope, primitives, generator, callers, rotation, autoLockGuard, now, cm, clipboard, clearTimers,
                  clearPc, current, cmMu, sinceCopy, cancelled >>

\* The caller's v, ok := <-ch on the closed and drained channel: ok is false,
\* no value was sent.
ReceiveClosed(i) ==
  /\ channel[i].state = "closed"
  /\ channel[i].buffered = 0
  /\ channel' = [channel EXCEPT ![i].state = "drained"]
  /\ cmLast' = Result("none", "nil")
  /\ UNCHANGED << envelope, primitives, generator, callers, rotation, autoLockGuard, now, cm, clipboard, clearTimers,
                  clearPc, current, cmMu, sinceCopy, cancelled >>

NextNotify ==
  \/ \E text \in CopyTexts, writeOK \in BOOLEAN : CallCopyWithNotification(text, writeOK)
  \/ CallCancelClear
  \/ Tick
  \/ \E i \in 1..MaxTimers : ExpireClear(i)
  \/ \E r \in 0..MaxTimers : ClearLock(r)
  \/ \E r \in 0..MaxTimers, readOK \in BOOLEAN : ClearRead(r, readOK)
  \/ \E r \in 0..MaxTimers, writeOK \in BOOLEAN : ClearWrite(r, writeOK)
  \/ \E i \in 1..MaxTimers : NotifySend(i)
  \/ \E i \in 1..MaxTimers : NotifyClose(i)
  \/ \E i \in 0..MaxTimers : Receive(i)
  \/ \E i \in 0..MaxTimers : ReceiveClosed(i)

\* The timer's function runs on to its end.
FairNotify ==
  /\ FairClipboard
  /\ WF_vars(\E i \in 1..MaxTimers : NotifySend(i))
  /\ WF_vars(\E i \in 1..MaxTimers : NotifyClose(i))

SpecNotify == InitClipboard /\ [][NextNotify]_vars /\ FairNotify

\* ------------------------------------------------------- password generator
\* The character classes, one character per element.
lowercase ==
  << "a", "b", "c", "d", "e", "f", "g", "h", "i", "j", "k", "l", "m", "n", "o", "p", "q",
     "r", "s", "t", "u", "v", "w", "x", "y", "z" >>

uppercase ==
  << "A", "B", "C", "D", "E", "F", "G", "H", "I", "J", "K", "L", "M", "N", "O", "P", "Q",
     "R", "S", "T", "U", "V", "W", "X", "Y", "Z" >>

digits ==
  << "0", "1", "2", "3", "4", "5", "6", "7", "8", "9" >>

symbols ==
  << "!", "@", "#", "$", "%", "^", "&", "*", "(", ")", "_", "+", "-", "=", "[", "]", "{",
     "}", "|", ";", ":", ",", ".", "<", ">", "?" >>

ambiguousChars == { "0", "O", "1", "l", "I" }

DefaultLength == 16
MaxLength == 128

\* if opts.Length < 1 { opts.Length = 16 }; if opts.Length > 128 { opts.Length = 128 }
ClampLength_NoDefault(n) == IF n < 1 THEN 1 ELSE IF n > MaxLength THEN MaxLength ELSE n
ClampLength(n) ==
  LET n1 == IF n < 1 THEN DefaultLength ELSE n
  IN IF n1 > MaxLength THEN MaxLength ELSE n1

\* The classes asked for, in the order the code appends them; lowercase and
\* digits when none is asked for; without the ambiguous characters when
\* ExcludeAmbiguous is set.
Charset(opts) ==
  LET asked == (IF opts.IncludeLowercase THEN lowercase ELSE << >>)
               \o (IF opts.IncludeUppercase THEN uppercase ELSE << >>)
               \o (IF opts.IncludeDigits THEN digits ELSE << >>)
               \o (IF opts.IncludeSymbols THEN symbols ELSE << >>)
      charset == IF asked = << >> THEN lowercase \o digits ELSE asked
      Kept(c) == c \notin ambiguousChars
  IN IF opts.ExcludeAmbiguous THEN SelectSeq(charset, Kept) ELSE charset

\* GeneratePassword(opts): seed stands for what rand.Int draws (the i-th draw
\* is seed + i modulo the charset's length), rngOK for whether it succeeds.
GeneratePassword(opts, seed, rngOK) ==
  LET length == ClampLength(opts.Length)
      charset == Charset(opts)
  IN IF ~rngOK
     THEN [password |-> << >>, err |-> "ErrEntropy"]
     ELSE [password |-> [i \in 1..length |-> charset[((seed + i - 1) % Len(charset)) + 1]],
           err |-> "nil"]

Lengths ==
  ((0 - LengthMargin)..(1 + LengthMargin)) \cup {DefaultLength}
    \cup ((MaxLength - LengthMargin)..(MaxLength + LengthMargin))

GeneratorOptionsSet ==
  [Length : Lengths, IncludeUppercase : BOOLEAN, IncludeLowercase : BOOLEAN,
   IncludeDigits : BOOLEAN, IncludeSymbols : BOOLEAN, ExcludeAmbiguous : BOOLEAN]

CallGeneratePassword(seed, rngOK) ==
  /\ genOut' = GeneratePassword(genOpts, seed, rngOK)
  /\ UNCHANGED << envelope, primitives, guards, callers, rotation, genOpts >>

InitGenerator ==
  /\ EnvelopeAtRest
  /\ PrimitivesAtRest
  /\ GuardsAtRest
  /\ CallersAtRest
  /\ rotation = NoRotation
  /\ genOpts \in GeneratorOptionsSet
  /\ genOut = NoPassword

NextGenerator == \E seed \in 0..MaxSeed, rngOK \in BOOLEAN : CallGeneratePassword(seed, rngOK)

SpecGenerator == InitGenerator /\ [][NextGenerator]_vars

\* ================================================================== claims
Sealed == bundle # NoBundle
Intact == ~Altered("EncryptedMEKPassword") /\ ~Altered("EncryptedMEKPhrase")

\* C1: as long as the bundle is the one CreateMEKBundle(pw) returned (no
\* rotation, no damage) and the keyring is as the creation left it,
\* DecryptMEKWithPassword(pw) and DecryptMEKWithPhrase(phrase) both succeed
\* and return the same 32-byte MEK.
C1_BothPathsSameMEK ==
  (Sealed /\ oldPw = Nil /\ Intact /\ ~touched) =>
    LET a == DecryptMEKWithPassword(bundle, keyring, curPw)
        b == DecryptMEKWithPhrase(bundle, phrase)
    IN /\ a.err = "nil"
       /\ b.err = "nil"
       /\ a.mek = b.mek
       /\ Len(a.mek) = MEKSize

\* A freshly created bundle has been unlocked and handed out its MEK.
C1_Witness ==
  Sealed /\ oldPw = Nil /\ Intact /\ ~touched /\ held = origMEK /\ held # Nil

\* C2: after any number of successful rotations with the unlocked MEK, with
\* the keyring as the latest rotation left it, the latest password and the
\* recovery phrase both open the bundle to the MEK CreateMEKBundle generated.
C2_RotationKeepsMEK ==
  (Sealed /\ oldPw # Nil /\ Intact /\ ~touched) =>
    LET a == DecryptMEKWithPassword(bundle, keyring, curPw)
        b == DecryptMEKWithPhrase(bundle, phrase)
    IN /\ a.err = "nil" /\ a.mek = origMEK
       /\ b.err = "nil" /\ b.mek = origMEK

\* A rotated bundle has been unlocked again.
C2_Witness ==
  Sealed /\ oldPw # Nil /\ Intact /\ ~touched /\ held = origMEK

\* The bundle and the keyring are as the latest successful rotation left them.
JustRotated ==
  Sealed /\ oldPw # Nil /\ ~touched /\ ~Altered("EncryptedMEKPassword")

OldPasswordRejected ==
  LET d == DecryptMEKWithPassword(bundle, keyring, oldPw)
  IN d.err = "ErrMEKDecryptionFailed" /\ d.mek = Nil

\* C3 as stated: after a successful rotation the pre-rotation password is
\* rejected with the wrong-credential error, for every old and new password.
C3_OldPasswordRejected_AnyPair == JustRotated => OldPasswordRejected

\* C3 amended: after a successful rotation to a new password that differs
\* from the old one, the old password is rejected with the wrong-credential
\* error and yields no MEK.
C3_OldPasswordRejected == (JustRotated /\ oldPw # curPw) => OldPasswordRejected

\* The bundle as a rotation to a different password left it.
C3_Witness == JustRotated /\ oldPw # curPw

\* C4: ReEncryptMEKWithNewPassword never writes SaltPhrase or
\* EncryptedMEKPhrase, on any return path: the two fields are always what
\* creation (or damage to the stored bundle) last made them, however many
\* rotations succeeded or failed since.
C4_PhraseBranchUntouched ==
  << bundle.SaltPhrase, bundle.EncryptedMEKPhrase >> = phraseBranch

\* A rotation has replaced the password branch.
C4_Witness ==
  Sealed /\ oldPw # Nil /\ bundle.EncryptedMEKPhrase.pt = origMEK

\* C5 as stated: DecryptMEKWithPassword returns ErrMEKDecryptionFailed and no
\* MEK whenever the password is not the one the password branch was sealed
\* under or EncryptedMEKPassword has been altered.
C5_WrongPasswordOrAlteredRejected ==
  Sealed =>
    \A password \in Passwords :
      (password # curPw \/ Altered("EncryptedMEKPassword")) =>
        LET d == DecryptMEKWithPassword(bundle, keyring, password)
        IN d.err = "ErrMEKDecryptionFailed" /\ d.mek = Nil

\* C6 as stated: the only error OpenWithPassword and OpenWithPhrase return is
\* the wrong-credential error, whatever the phrase and the bundle contents.
C6_OnlyWrongCredential ==
  Sealed =>
    /\ \A password \in Passwords :
         DecryptMEKWithPassword(bundle, keyring, password).err
           \in {"nil", "ErrMEKDecryptionFailed"}
    /\ \A ph \in PhraseInputs :
         DecryptMEKWithPhrase(bundle, ph).err \in {"nil", "ErrMEKDecryptionFailed"}

\* C7 as stated: when the keyring read fails with anything but not-found
\* (provider error, undecodable entry), DecryptMEKWithPassword does not use
\* the password-only derivation.
C7_NoPasswordOnlyWhenUnavailable ==
  (Sealed /\ GetKeyringSecret(keyring).err \notin {"nil", "ErrKeyringSecretNotFound"}) =>
    \A password \in Passwords :
      DecryptMEKWithPassword(bundle, keyring, password).kdf # "DeriveKey"

\* C8 as stated: a password branch sealed with keyring secret ks does not
\* open under the correct password while the keyring holds another secret or
\* none; the call returns the wrong-credential error.
C8_KeyringSecondFactor ==
  LET g == GetKeyringSecret(keyring)
  IN (/\ Sealed
      /\ sealSecret # Nil
      /\ ~Altered("EncryptedMEKPassword")
      /\ \/ g.err = "ErrKeyringSecretNotFound"
         \/ g.err = "nil" /\ g.secret # sealSecret) =>
       LET d == DecryptMEKWithPassword(bundle, keyring, curPw)
       IN d.err = "ErrMEKDecryptionFailed" /\ d.mek = Nil

\* C9 as stated: GetKeyringSecret returns a secret only if the stored value
\* decodes to exactly KeyringSecretSize bytes.
C9_SecretLengthValidated ==
  LET g == GetKeyringSecret(keyring)
  IN g.err = "nil" => Len(g.secret) = KeyringSecretSize

\* C10: GetOrCreateKeyringSecret returns the stored secret and writes nothing
\* when one is stored; it writes only when the provider reports not-found,
\* and then the entry it stores is the one it returns; on any other error it
\* returns that error and stores nothing; a successful call that follows a
\* successful call, the entry not having been written or deleted in between,
\* returns the same secret.
C10_GetOrCreate ==
  [][(\E fresh \in RandomSecrets, rngOK \in BOOLEAN :
        CallGetOrCreateKeyringSecret(fresh, rngOK))
     => LET g == GetKeyringSecret(keyring)
        IN /\ g.err = "nil" =>
                keyring' = keyring /\ last'.err = "nil" /\ gocSecret' = g.secret
           /\ keyring' # keyring =>
                /\ g.err = "ErrKeyringSecretNotFound"
                /\ last'.err = "nil"
                /\ GetKeyringSecret(keyring').err = "nil"
                /\ GetKeyringSecret(keyring').secret = gocSecret'
           /\ g.err \notin {"nil", "ErrKeyringSecretNotFound"} =>
                keyring' = keyring /\ last'.err = g.err
           /\ (gocSecret # Nil /\ last'.err = "nil") => gocSecret' = gocSecret]_vars

\* Two successful GetOrCreateKeyringSecret calls in a row, the second one
\* finding the entry the first one stored.
C10_Witness ==
  /\ last = Result("GetOrCreateKeyringSecret", "nil")
  /\ gocCalls = 2
  /\ keyring.entry = B64Encode(gocSecret)
  /\ gocSecret \in RandomSecrets

\* C11: for every plaintext, the empty and the nil one included, and every
\* 32-byte key, Decrypt applied under the same key to what Encrypt returned
\* succeeds and returns the bytes of the plaintext.
C11_RoundTrip ==
  (aeadOut.err = "nil" /\ aeadOut.derr # "none") =>
    /\ aeadOut.derr = "nil"
    /\ Bytes(aeadOut.decrypted) = Bytes(aeadIn.plaintext)

\* The empty plaintext has been sealed into a 28-byte blob and opened again.
C11_Witness ==
  /\ aeadIn.plaintext = << >>
  /\ aeadIn.key.len = KeySize
  /\ aeadOut.err = "nil"
  /\ aeadOut.ciphertext.len = NonceSize + TagSize
  /\ aeadOut.derr = "nil"

\* C12: with an empty keyring secret DeriveKeyWithKeyring(p, s, empty)
\* is a different key than DeriveKey(p, s).
C12_EmptySecretOtherDomain ==
  (Bytes(kdfIn.keyringSecret) = << >> /\ kdfOut.plain # NoKey /\ kdfOut.combined # NoKey) =>
    kdfOut.combined # kdfOut.plain

\* C13: once Stop() has returned, the callback is not invoked until a later
\* Start(), also when an expiry was already in progress (its onTimeout
\* waiting for the mutex) while Stop ran.
C13_NoCallbackAfterStop == [][stopped => invocations' = invocations]_vars

\* Of the timers in s, those whose expiry has made the timer idle, and those
\* whose expiry has invoked the callback.
Fired(s) == { i \in s : onTimeoutPc[i] \in {"unlocked", "callback", "done"} }
Invoked(s) == { i \in s : onTimeoutPc[i] \in {"callback", "done"} /\ autoLock.callback }

\* C14: once an expiry armed since the latest Start has fired, the timer is
\* idle (IsActive false, no expiry pending), and of the expiries armed since
\* that Start at most one fires and invokes the callback, whatever Reset or
\* SetTimeout calls interleave with the expiry.
C14_OneCallbackPerStart ==
  (Fired(armedSinceStart) # {}) =>
    /\ ~IsActive(autoLock)
    /\ Pending(timers) = {}
    /\ Cardinality(Fired(armedSinceStart)) <= 1
    /\ Cardinality(Invoked(armedSinceStart)) <= 1

\* The goroutine of an expiry never holds t.mu once it has left onTimeout's
\* locked section, so the methods a callback calls can take it.
CallbackOutsideLock ==
  \A i \in 1..MaxTimers : onTimeoutPc[i] \in {"unlocked", "callback"} => mu # i

\* C15 as stated: the callback runs outside the mutex, and IsActive() read at
\* the entry of the callback is false.
C15_CallbackSeesIdle_Always ==
  /\ CallbackOutsideLock
  /\ \A i \in 1..MaxTimers : ~seenActive[i].isActive

\* C15 amended: the callback runs outside the mutex, and IsActive() read at
\* the entry of the callback is false unless Start() has been called since
\* the expiry made the timer idle.
C15_CallbackSeesIdle ==
  /\ CallbackOutsideLock
  /\ \A i \in 1..MaxTimers : seenActive[i].isActive => seenActive[i].startSinceIdle

\* A callback is running, it read IsActive() = false at its entry, and a
\* Start() called while it runs has taken the mutex and armed the timer again.
C15_Witness ==
  \E i \in 1..MaxTimers :
    /\ onTimeoutPc[i] = "callback"
    /\ ~seenActive[i].isActive
    /\ lastCall = "Start"
    /\ IsActive(autoLock)

\* C16: when Start() has returned the timer is running, with exactly one
\* expiry pending, from any prior state and for any configured timeout.
C16_StartArms ==
  (lastCall = "Start") => (IsActive(autoLock) /\ Cardinality(Pending(timers)) = 1)

\* The timer is running with the expiry it holds still pending.
RunningPending(t, tm) == t.active /\ t.timer # 0 /\ tm[t.timer].status = "pending"

C18_SetTimeoutRearms ==
  [][ (lastCall' = "SetTimeout") =>
        /\ autoLock'.timeout # autoLock.timeout
        /\ RunningPending(autoLock, timers) =>
             /\ Cardinality(Pending(timers')) = 1
             /\ RunningPending(autoLock', timers')
             /\ timers'[autoLock'.timer].when = now + autoLock'.timeout
        /\ ~IsActive(autoLock) =>
             /\ autoLock' = [autoLock EXCEPT !.timeout = autoLock'.timeout]
             /\ timers' = timers ]_vars

\* C19: when a run of Clear (the caller's or a timer's) that follows a Copy
\* gets to its write, it overwrites the clipboard with the empty string if the clipboard holds
\* lastContent and leaves it alone otherwise, also when another application
\* wrote the clipboard while Clear was running.
C19_ClearOnlyOwnContent ==
  [][ \A r \in 0..MaxTimers :
        (clearPc[r] = "read" /\ clearPc'[r] = "nil" /\ cm.lastContent # "") =>
          IF clipboard.content = cm.lastContent
          THEN clipboard'.content = ""
          ELSE clipboard'.content = clipboard.content ]_vars

\* Since the latest successful Copy with a timeout there was no further
\* Copy, no CancelClear and no external write, and (what the claim takes for
\* granted) no Clear called by hand and no failing clipboard read or write.
Quiet == sinceCopy.undisturbed /\ ~sinceCopy.cleared /\ ~sinceCopy.failed

\* C20: after a successful Copy(text) with timeout > 0, as long as things
\* stay quiet, the clipboard reads text until the timeout has elapsed, and
\* eventually it reads the empty string with lastContent empty.
C20_ClearedAfterTimeout ==
  /\ [](Quiet /\ now < sinceCopy.when => clipboard.content = sinceCopy.text)
  /\ (Quiet ~> (~Quiet \/ (clipboard.content = "" /\ cm.lastContent = "")))

\* A run of Clear returns on a path other than ErrClipboardUnavailable.
ClearReturns(r) ==
  /\ clearPc[r] \in {"locked", "read"}
  /\ clearPc'[r] \in {"nil", "read failed", "write failed"}

\* C21: whenever the clipboard is supported, a run of Clear that returns on
\* any path other than ErrClipboardUnavailable leaves the manager's
\* lastContent empty, whether or not the clipboard content matched it.
C21_ClearForgets ==
  [][\A r \in 0..MaxTimers : ClearReturns(r) => cm'.lastContent = ""]_vars

\* A timer's run of Clear takes its last step, the one that may write.
StaleClearActs(i) == clearPc[i] = "read" /\ clearPc'[i] # "read"

\* C22: CancelClear leaves the clipboard content and lastContent unchanged,
\* and once it has returned (and until the next successful Copy) no run of
\* Clear started by a timer changes the clipboard, even a run whose timer had
\* expired and was waiting for cm.mu when CancelClear ran.
C22_CancelClearCancels ==
  [][/\ cmLast'.op = "CancelClear" =>
          (clipboard' = clipboard /\ cm'.lastContent = cm.lastContent)
     /\ cancelled =>
          \A i \in 1..MaxTimers : StaleClearActs(i) => clipboard' = clipboard]_vars

\* C27: once Copy(b) has scheduled its own clear, a run of Clear started by
\* the timer of an earlier Copy does not change the clipboard before b's
\* timeout has elapsed, even if that timer had expired and was waiting for
\* cm.mu while Copy(b) ran.
C27_ClearOnlyOwnCopy ==
  [][\A i \in 1..MaxTimers :
        (/\ sinceCopy.undisturbed
         /\ i # cm.clearTimer
         /\ now < sinceCopy.when
         /\ StaleClearActs(i)) => clipboard' = clipboard]_vars

\* C30: a Copy that fails on the clipboard write leaves the manager as it
\* was: lastContent and clearTimer are unchanged and the timer pending for
\* the text copied before is still pending.
C30_FailedCopyChangesNothing ==
  [][(cmLast'.op = "Copy" /\ cmLast'.err = "write failed") =>
        (cm' = cm /\ clearTimers' = clearTimers)]_vars

\* Values that came out of the channel or wait in its buffer.
Delivered(i) == channel[i].buffered + channel[i].received

\* C23: the channel CopyWithNotification returned carries at most one value;
\* a value is on it only if the clear scheduled by that call has run, and only
\* after that Clear has returned; and once that Clear has returned the value
\* does arrive. (A receive on the closed, drained channel yields no sent
\* value.)
C23_OneShotSignal ==
  /\ [](\A i \in 0..MaxTimers :
          /\ Delivered(i) <= 1
          /\ Delivered(i) = 1 => (i # 0 /\ ClearReturned(i)))
  /\ \A i \in 1..MaxTimers :
       (channel[i].state # "none" /\ ClearReturned(i)) ~> (Delivered(i) = 1)

C23_Witness == \E i \in 1..MaxTimers : channel[i].received = 1 /\ channel[i].state = "drained"

clamp(n, lo, hi) == IF n < lo THEN lo ELSE IF n > hi THEN hi ELSE n

\* C24 as stated: for every GeneratorOptions o, o.Length <= 0 and
\* o.Length > 128 included, the password GeneratePassword returns has length
\* exactly clamp(o.Length, 1, 128).
C24_LengthIsClamp ==
  genOut.err = "nil" => Len(genOut.password) = clamp(genOpts.Length, 1, MaxLength)

\* C24, amended: for every GeneratorOptions o, the password GeneratePassword
\* returns has length exactly clamp(o.Length, 1, 128) when o.Length >= 1,
\* o.Length > 128 included, and length 16 when o.Length <= 0.
C24_LengthIsClampOrDefault ==
  genOut.err = "nil" =>
    Len(genOut.password) = IF genOpts.Length <= 0 THEN DefaultLength
                           ELSE clamp(genOpts.Length, 1, MaxLength)

C24_Witness == genOut.err = "nil" /\ genOpts.Length <= 0 /\ Len(genOut.password) = DefaultLength

\* The step is a rotation by a caller of SpecRotate.
RotationStep == rotation'.mark # rotation.mark

\* The wrapped MEK of the password branch was sealed under the bundle's salt.
Paired(b) == b.EncryptedMEKPassword.key.salt = b.SaltPassword

\* C25: ReEncryptMEKWithNewPassword either installs both the new salt and
\* the MEK wrapped under it, or, when it returns an error, leaves every
\* field of the bundle as it was; at no time does the bundle hold a
\* SaltPassword other than the one its EncryptedMEKPassword was sealed under.
C25_SaltAndBlobTogether ==
  /\ [](Sealed => Paired(bundle))
  /\ [][RotationStep =>
          IF rotation'.err = "nil"
          THEN /\ Paired(bundle')
               /\ bundle'.EncryptedMEKPassword.pt = Bytes(rotation'.mek)
          ELSE bundle' = bundle]_vars

\* A rotation has installed a salt that creation did not draw.
C25_Witness == Sealed /\ rotation.err = "nil" /\ bundle.SaltPassword \notin RandomSalts

\* The key of ks_or_none: with the stored secret if there is one, from the
\* password alone otherwise.
KsOrNoneKey(kr, password, salt) ==
  LET g == GetKeyringSecret(kr)
  IN IF g.err = "nil" THEN DeriveKeyWithKeyring(password, salt, g.secret)
     ELSE DeriveKey(password, salt)

\* C26: a rotation derives the new key from the keyring secret when one is
\* stored and from the password alone otherwise, and leaves the keyring as
\* it was: with no secret stored before the call, none is stored after it.
C26_RotationLeavesKeyring ==
  [][RotationStep =>
       /\ keyring' = keyring
       /\ rotation'.err = "nil" =>
            bundle'.EncryptedMEKPassword.key =
              KsOrNoneKey(keyring, curPw', bundle'.SaltPassword)]_vars

\* C28: whatever byte string each rotation was given as mek, the password
\* branch and the phrase branch open to the same MEK whenever both open, and
\* a rotation with a mek that is not the MEK of the bundle returns an error
\* and leaves the bundle as it was.
C28_ForeignMEKRejected ==
  /\ [](Sealed =>
          LET a == DecryptMEKWithPassword(bundle, keyring, curPw)
              b == DecryptMEKWithPhrase(bundle, phrase)
          IN (a.err = "nil" /\ b.err = "nil") => a.mek = b.mek)
  /\ [][(RotationStep /\ Bytes(rotation'.mek) # origMEK) =>
          (rotation'.err # "nil" /\ bundle' = bundle)]_vars

\* Some goroutine has called and none is still inside.
AllFinished ==
  /\ \A c \in 1..NumCallers : callers[c].pc \in {"idle", "done"}
  /\ \E c \in 1..NumCallers : callers[c].pc = "done"

\* C29: when the concurrent calls of GetOrCreateKeyringSecret on an empty
\* keyring have all finished, every call that succeeded has returned the
\* secret the keyring then holds.
C29_CallersShareSecret ==
  AllFinished =>
    \A c \in 1..NumCallers :
      callers[c].err = "nil" =>
        LET g == GetKeyringSecret(keyring)
        IN g.err = "nil" /\ g.secret = callers[c].secret


====
